---- MODULE Spec2Model ----
(***************************************************************************)
(* diceroll: a command-line random-number generator.                       *)
(*                                                                         *)
(* The model follows the most complete variant of the program (the one     *)
(* with --include and --stat-all): parse_args, the generation loop of main *)
(* and the statistics block of main.  The output format (delimiter, blank   *)
(* lines, --flags) is left out.                                            *)
(*                                                                         *)
(* A long double is the x87 extended-precision number of the build: a      *)
(* sign, a significand of 64 bits and a power of two, with two zeros.      *)
(* Every operation on it gives the value the processor gives, rounded to   *)
(* the nearest, ties to the even significand.                              *)
(* A string is a sequence of one-character strings.                        *)
(***************************************************************************)
EXTENDS Integers, Sequences, FiniteSets, TLC

VARIABLES
    argv,       \* the option values of the command line, numbers as typed
    args,       \* program_args, as po::notify and then parse_args leave it
    pc,         \* position in main
    result,     \* <<the value main returned>>; <<>> while it runs or after a crash
    i,          \* the loop variable of the generation loop
    list_cnt,   \* the list counter
    draws,      \* calls of random() so far
    seeds,      \* seedings so far: engines constructed from std::random_device, calls of std::srand
    rand,       \* <<the local rand of the loop body, after rounding>>; <<>> outside the loop
    generated,  \* std::vector<long double> generated
    out,        \* the value lines written to std::cout
    stats,      \* the statistic lines written to std::cout, each with the
                \* long double that was written
    accepted,   \* the values pushed on generated, in the order of the calls
    badbit,     \* a std::ostringstream of filter has failed to allocate its
                \* buffer, in the run or in the other run
    twin        \* the run of the same command line with --quiet the other way
                \* round, given the draws of the run for as long as it is in
                \* its loop: its place, i and generated

vars == <<argv, args, pc, result, i, list_cnt, draws, seeds, rand, generated, out, stats, accepted, badbit, twin>>

----------------------------------------------------------------------------
(* Bounds of the model *)

\* largest --number of the generation runs
MaxNumber == 3
\* largest --number of the runs with numbers-force checked for termination
MaxForceNumber == 2
\* passes of the loop a run is followed for beyond MaxLen
ExtraDraws == 1

\* the accepted values a run is followed for, one more than the largest
\* --number: no pass of the loop is made on a sequence of MaxLen values
MaxLen == MaxNumber + 1

\* the most passes of the loop a run is followed for
DrawCap == MaxLen + ExtraDraws

----------------------------------------------------------------------------
(* Values *)

\* enum returnID
success_help == -1
success == 0
overd_err == 1
underd_err == 2
zero_err == 3
\* mutant: two kinds of failure share an exit code
gen_err_same == zero_err
gen_err == 4
conflict_err == 5
vect_nan == 6
known_err == 7
other_err == 8

\* std::numeric_limits<long double>::max_digits10 (x87 extended precision)
ld_prec == 21

gen_opts ==
    {"minstd_rand0", "minstd_rand", "mt19937", "mt19937_64", "ranlux24_base",
     "ranlux48_base", "ranlux24", "ranlux48", "knuth_b", "default_random_engine",
     "badrandom"}

Digit == {"0", "1", "2", "3", "4", "5", "6", "7", "8", "9"}

SeqSet(s) == {s[k] : k \in 1..Len(s)}

----------------------------------------------------------------------------
(* parse_args *)

\* mutant: the points of a pattern are not counted
NotNumeric_no_count(j) == \E k \in 1..Len(j) : j[k] \notin Digit \cup {"."}

\* j.find_first_not_of("0123456789.") != npos || count(j, '.') > 1
NotNumeric(j) ==
    \/ \E k \in 1..Len(j) : j[k] \notin Digit \cup {"."}
    \/ Cardinality({k \in 1..Len(j) : j[k] = "."}) > 1

\* the loop over {prefix, suffix, contains}
AnyNotNumeric(a) ==
    \E j \in SeqSet(a.prefix) \cup SeqSet(a.suffix) \cup SeqSet(a.contains) : NotNumeric(j)

RoundingCount(a) == Cardinality({m \in {"ceil", "floor", "round", "trunc"} : a[m]})

AnyRounding(a) == a.ceil \/ a.floor \/ a.round \/ a.trunc

\* if(args.ceil || args.floor || args.round || args.trunc) args.precision = 0;
OverridePrecision(a) == IF AnyRounding(a) THEN [a EXCEPT !.precision = 0] ELSE a

\* mutant: the checks in the order count, rounding, precision, generator, patterns
parse_args_reordered(a) ==
    IF a.help THEN [code |-> success_help, args |-> a]
    ELSE IF a.number <= 0 THEN [code |-> zero_err, args |-> a]
    ELSE IF RoundingCount(a) > 1 THEN [code |-> conflict_err, args |-> a]
    ELSE IF a.precision > ld_prec THEN [code |-> overd_err, args |-> a]
    ELSE IF a.precision <= -1 THEN [code |-> underd_err, args |-> a]
    ELSE IF a.generator \notin gen_opts THEN [code |-> gen_err, args |-> a]
    ELSE IF AnyNotNumeric(a) THEN [code |-> vect_nan, args |-> OverridePrecision(a)]
    ELSE [code |-> success, args |-> OverridePrecision(a)]

\* parse_args of the most complete variant: the code returned and args as left
parse_args(a) ==
    IF a.help THEN [code |-> success_help, args |-> a]
    ELSE IF a.precision > ld_prec THEN [code |-> overd_err, args |-> a]
    ELSE IF a.precision <= -1 THEN [code |-> underd_err, args |-> a]
    ELSE IF a.number <= 0 THEN [code |-> zero_err, args |-> a]
    ELSE IF a.generator \notin gen_opts THEN [code |-> gen_err, args |-> a]
    ELSE IF RoundingCount(a) > 1 THEN [code |-> conflict_err, args |-> a]
    ELSE IF AnyNotNumeric(a) THEN [code |-> vect_nan, args |-> OverridePrecision(a)]
    ELSE [code |-> success, args |-> OverridePrecision(a)]

(* long double *)

\* A long double is a sign, a significand of Mantissa bits and a power of
\* two; every operation rounds its exact result to the nearest such value,
\* ties to the even significand. The significand does not fit an integer of
\* the checker, so it is a sequence of limbs, the least significant first.

\* std::numeric_limits<long double>::digits (x87 extended precision)
Mantissa == 64

\* std::numeric_limits<double>::digits
DoubleMantissa == 53

LimbBits == 15

Base == 2^LimbBits

Limb(a, k) == IF k <= Len(a) THEN a[k] ELSE 0

\* a without its leading zero limbs
RECURSIVE Trim(_)
Trim(a) ==
    CHOOSE r \in {IF x # <<>> /\ x[Len(x)] = 0 THEN Trim(SubSeq(x, 1, Len(x) - 1)) ELSE x :
                      x \in {a}} : TRUE

\* the limbs of a natural number
RECURSIVE Big(_)
Big(n) == CHOOSE r \in {IF x = 0 THEN <<>> ELSE <<x % Base>> \o Big(x \div Base) : x \in {n}} : TRUE

RECURSIVE BigAddFrom(_, _, _, _)
BigAddFrom(a, b, k, c) ==
    IF k > Len(a) /\ k > Len(b)
    THEN (IF c = 0 THEN <<>> ELSE <<c>>)
    ELSE CHOOSE r \in {<<s % Base>> \o BigAddFrom(a, b, k + 1, s \div Base) :
                           s \in {Limb(a, k) + Limb(b, k) + c}} : TRUE

BigAdd(a, b) == CHOOSE r \in {BigAddFrom(x, y, 1, 0) : x \in {a}, y \in {b}} : TRUE

RECURSIVE BigSubFrom(_, _, _, _)
BigSubFrom(a, b, k, c) ==
    IF k > Len(a)
    THEN <<>>
    ELSE CHOOSE r \in {<<(s + Base) % Base>> \o BigSubFrom(a, b, k + 1, IF s < 0 THEN 1 ELSE 0) :
                           s \in {Limb(a, k) - Limb(b, k) - c}} : TRUE

\* a - b, for b not above a
BigSub(a, b) == CHOOSE r \in {Trim(BigSubFrom(x, y, 1, 0)) : x \in {a}, y \in {b}} : TRUE

RECURSIVE BigCmpFrom(_, _, _)
BigCmpFrom(a, b, k) ==
    IF k = 0 THEN 0
    ELSE IF a[k] < b[k] THEN -1
    ELSE IF a[k] > b[k] THEN 1
    ELSE BigCmpFrom(a, b, k - 1)

\* -1, 0 or 1 as a is below, equal to or above b
BigCmp(a, b) ==
    CHOOSE r \in {IF Len(x) < Len(y) THEN -1
                  ELSE IF Len(x) > Len(y) THEN 1
                  ELSE BigCmpFrom(x, y, Len(x)) : x \in {a}, y \in {b}} : TRUE

RECURSIVE BigMulSmallFrom(_, _, _, _)
BigMulSmallFrom(a, m, k, c) ==
    IF k > Len(a)
    THEN (IF c = 0 THEN <<>> ELSE <<c>>)
    ELSE CHOOSE r \in {<<s % Base>> \o BigMulSmallFrom(a, m, k + 1, s \div Base) :
                           s \in {a[k] * m + c}} : TRUE

\* a * m, for m below Base
BigMulSmall(a, m) == CHOOSE r \in {Trim(BigMulSmallFrom(x, y, 1, 0)) : x \in {a}, y \in {m}} : TRUE

RECURSIVE BigMulFrom(_, _, _)
BigMulFrom(a, b, j) ==
    IF j > Len(b) THEN <<>>
    ELSE CHOOSE r \in {BigAdd(BigMulSmall(a, b[j]), IF rest = <<>> THEN <<>> ELSE <<0>> \o rest) :
                           rest \in {BigMulFrom(a, b, j + 1)}} : TRUE

BigMul(a, b) == CHOOSE r \in {BigMulFrom(x, y, 1) : x \in {a}, y \in {b}} : TRUE

\* the quotient and the remainder of the limbs 1..k of a, with rem above
\* them, by m
RECURSIVE BigDivSmallFrom(_, _, _, _)
BigDivSmallFrom(a, m, k, rem) ==
    IF k = 0 THEN [quot |-> <<>>, rem |-> rem]
    ELSE CHOOSE r \in {[quot |-> low.quot \o <<cur \div m>>, rem |-> low.rem] :
                           cur \in {rem * Base + a[k]},
                           low \in {BigDivSmallFrom(a, m, k - 1, (rem * Base + a[k]) % m)}} : TRUE

\* a / m and a % m, for m below 2 * Base
BigDivSmall(a, m) ==
    CHOOSE r \in {[quot |-> Trim(d.quot), rem |-> d.rem] :
                      d \in {BigDivSmallFrom(a, m, Len(a), 0)}} : TRUE

\* a * 2^n
BigShl(a, n) ==
    CHOOSE r \in {IF x = <<>> \/ n = 0 THEN x
                  ELSE BigMulSmall([k \in 1..(n \div LimbBits) |-> 0] \o x, 2^(n % LimbBits)) :
                      x \in {a}} : TRUE

\* a / 2^n, rounded down
BigShr(a, n) ==
    CHOOSE r \in {BigDivSmall(SubSeq(x, n \div LimbBits + 1, Len(x)), 2^(n % LimbBits)).quot :
                      x \in {a}} : TRUE

RECURSIVE Bits(_)
Bits(n) == IF n = 0 THEN 0 ELSE 1 + Bits(n \div 2)

\* the number of bits of a
BitLen(a) ==
    CHOOSE r \in {IF x = <<>> THEN 0 ELSE LimbBits * (Len(x) - 1) + Bits(x[Len(x)]) :
                      x \in {a}} : TRUE

IsOdd(a) == a # <<>> /\ a[1] % 2 = 1

\* the long double zero
Zero == [neg |-> FALSE, mant |-> <<>>, exp |-> 0]

\* some of the n lowest bits of a is set
LowBits(a, n) ==
    \/ \E j \in 1..(n \div LimbBits) : Limb(a, j) # 0
    \/ Limb(a, n \div LimbBits + 1) % 2^(n % LimbBits) # 0

\* the zero with a sign
SignedZero(neg) == [neg |-> neg, mant |-> <<>>, exp |-> 0]

\* what IEEE arithmetic gives where no number is defined
NaN == [nan |-> TRUE]

\* the infinity with a sign
Infinity(neg) == [inf |-> TRUE, neg |-> neg]

\* what a read through end() of an empty vector gives, when it returns
Indeterminate == [indeterminate |-> TRUE]

IsFinite(x) == DOMAIN x = {"neg", "mant", "exp"}

\* The nearest number with a significand of p bits to a number of magnitude
\* m * 2^e, or, with sticky, to a number strictly between m * 2^e and
\* (m + 1) * 2^e, m then of more than p bits: the significand keeps its p
\* leading bits and is rounded up when the bit after them is set and either
\* a bit below that one is set too or the significand kept is odd. The
\* result is held as a long double.
RoundTo(p, neg, m, e, sticky) ==
    CHOOSE r \in
        {IF x = <<>> THEN SignedZero(neg)
         ELSE IF len <= p
         THEN [neg |-> neg, mant |-> BigShl(x, Mantissa - len), exp |-> e - (Mantissa - len)]
         ELSE CHOOSE s \in
                 {[neg |-> neg,
                   mant |-> IF BitLen(up) <= Mantissa THEN BigShl(up, Mantissa - BitLen(up))
                            ELSE BigShr(up, BitLen(up) - Mantissa),
                   exp |-> e + (len - p) - (Mantissa - BitLen(up))] :
                     up \in {CHOOSE u \in
                                {IF IsOdd(y) /\ (sticky \/ IsOdd(q) \/ LowBits(x, len - p - 1))
                                 THEN BigAdd(q, <<1>>) ELSE q :
                                     y \in {BigShr(x, len - p - 1)},
                                     q \in {BigShr(x, len - p)}} : TRUE}} : TRUE :
             x \in {m}, len \in {BitLen(m)}} : TRUE

\* the long double nearest to such a number
RoundLD(neg, m, e, sticky) == RoundTo(Mantissa, neg, m, e, sticky)

\* the conversion of an integer, which is exact
FromInt(n) == RoundLD(n < 0, Big(IF n < 0 THEN -n ELSE n), 0, FALSE)

\* the conversion of a long double to double
ToDouble(x) ==
    IF x.mant = <<>> THEN x ELSE RoundTo(DoubleMantissa, x.neg, x.mant, x.exp, FALSE)

\* x == y
FEq(x, y) ==
    IF IsFinite(x) /\ IsFinite(y) THEN (IF x.mant = <<>> THEN y.mant = <<>> ELSE x = y)
    ELSE x = y /\ x # NaN

\* -1, 0 or 1 as the magnitude of x is below, equal to or above that of y
MagCmp(x, y) ==
    IF x.mant = <<>> THEN (IF y.mant = <<>> THEN 0 ELSE -1)
    ELSE IF y.mant = <<>> THEN 1
    ELSE IF x.exp # y.exp THEN (IF x.exp < y.exp THEN -1 ELSE 1)
    ELSE BigCmp(x.mant, y.mant)

Sign(x) == IF x.mant = <<>> THEN 0 ELSE IF x.neg THEN -1 ELSE 1

\* x < y
FLess(x, y) ==
    IF Sign(x) # Sign(y) THEN Sign(x) < Sign(y)
    ELSE IF Sign(x) = 1 THEN MagCmp(x, y) < 0
    ELSE IF Sign(x) = -1 THEN MagCmp(x, y) > 0
    ELSE FALSE

\* x + y
FAdd(x, y) ==
    CHOOSE r \in
        {IF a.mant = <<>> /\ b.mant = <<>> THEN SignedZero(a.neg /\ b.neg)
         ELSE IF a.mant = <<>> THEN b
         ELSE IF b.mant = <<>> THEN a
         ELSE CHOOSE s \in
                 {IF a.neg = b.neg THEN RoundLD(a.neg, BigAdd(ma, mb), e, FALSE)
                  ELSE IF BigCmp(ma, mb) > 0 THEN RoundLD(a.neg, BigSub(ma, mb), e, FALSE)
                  ELSE IF BigCmp(ma, mb) < 0 THEN RoundLD(b.neg, BigSub(mb, ma), e, FALSE)
                  ELSE Zero :
                      e \in {IF a.exp < b.exp THEN a.exp ELSE b.exp},
                      ma \in {BigShl(a.mant, a.exp - (IF a.exp < b.exp THEN a.exp ELSE b.exp))},
                      mb \in {BigShl(b.mant, b.exp - (IF a.exp < b.exp THEN a.exp ELSE b.exp))}} : TRUE :
             a \in {x}, b \in {y}} : TRUE

\* x - y
FSub(x, y) == FAdd(x, [y EXCEPT !.neg = ~@])

\* x * y
FMul(x, y) ==
    CHOOSE r \in
        {IF a.mant = <<>> \/ b.mant = <<>> THEN SignedZero(a.neg # b.neg)
         ELSE RoundLD(a.neg # b.neg, BigMul(a.mant, b.mant), a.exp + b.exp, FALSE) :
             a \in {x}, b \in {y}} : TRUE

\* q with the n next bits of the quotient of r by b after it, for r below
\* b, and the remainder left: the bits one by one, the steps split in two
\* halves
RECURSIVE BigDivBits(_, _, _, _)
BigDivBits(q, r, b, n) ==
    IF n = 0 THEN [quot |-> q, rem |-> r]
    ELSE IF n = 1
    THEN CHOOSE s \in
            {IF BigCmp(r2, b) >= 0
             THEN [quot |-> BigAdd(q2, <<1>>), rem |-> BigSub(r2, b)]
             ELSE [quot |-> q2, rem |-> r2] :
                 r2 \in {BigMulSmall(r, 2)}, q2 \in {BigMulSmall(q, 2)}} : TRUE
    ELSE CHOOSE s \in
            {BigDivBits(d.quot, d.rem, b, n - n \div 2) :
                 d \in {BigDivBits(q, r, b, n \div 2)}} : TRUE

\* bits of a quotient computed before it is rounded
QuotientBits == Mantissa + 2

\* x / y
FDiv(x, y) ==
    CHOOSE r \in
        {IF a = NaN \/ b = NaN THEN NaN
         ELSE IF ~IsFinite(b) THEN (IF IsFinite(a) THEN SignedZero(a.neg # b.neg) ELSE NaN)
         ELSE IF ~IsFinite(a) THEN Infinity(a.neg # b.neg)
         ELSE IF b.mant = <<>> THEN (IF a.mant = <<>> THEN NaN ELSE Infinity(a.neg # b.neg))
         ELSE IF a.mant = <<>> THEN SignedZero(a.neg # b.neg)
         ELSE CHOOSE s \in
                 {RoundLD(a.neg # b.neg, d.quot, a.exp - b.exp - QuotientBits, d.rem # <<>>) :
                     d \in {IF BigCmp(a.mant, b.mant) >= 0
                            THEN BigDivBits(<<1>>, BigSub(a.mant, b.mant), b.mant, QuotientBits)
                            ELSE BigDivBits(<<>>, a.mant, b.mant, QuotientBits)}} : TRUE :
             a \in {x}, b \in {y}} : TRUE

\* x / n for a size n below 2^14, rounded to a significand of p bits
Quotient(p, x, n) ==
    CHOOSE r \in
        {IF a = NaN THEN NaN
         ELSE IF n = 0 THEN (IF a.mant = <<>> THEN NaN ELSE Infinity(a.neg))
         ELSE IF a.mant = <<>> THEN a
         ELSE CHOOSE s \in {RoundTo(p, a.neg, d.quot, a.exp - LimbBits, d.rem # 0) :
                                d \in {BigDivSmall(<<0>> \o a.mant, n)}} : TRUE :
             a \in {x}} : TRUE

\* long double / size
FDivSize(x, n) == Quotient(Mantissa, x, n)

\* double / size: the size is converted to double and so is the quotient
DDivSize(x, n) == Quotient(DoubleMantissa, x, n)

\* k steps of the root: st holds the root found so far, res, what is left
\* of the radicand, n, and the bit j (even) the next step is about; a step
\* finds one bit of the root
RECURSIVE BigSqrtBits(_, _)
BigSqrtBits(st, k) ==
    IF k = 0 THEN st
    ELSE IF k = 1
    THEN CHOOSE s \in
            {IF BigCmp(st.n, t) >= 0
             THEN [n |-> BigSub(st.n, t), res |-> BigAdd(half, bit), j |-> st.j - 2]
             ELSE [n |-> st.n, res |-> half, j |-> st.j - 2] :
                 t \in {BigAdd(st.res, BigShl(<<1>>, st.j))},
                 half \in {BigShr(st.res, 1)},
                 bit \in {BigShl(<<1>>, st.j)}} : TRUE
    ELSE CHOOSE s \in
            {BigSqrtBits(d, k - k \div 2) : d \in {BigSqrtBits(st, k \div 2)}} : TRUE

\* the whole root of n and what is left of n
BigSqrt(n) ==
    CHOOSE r \in
        {[root |-> d.res, rem |-> d.n] :
            d \in {BigSqrtBits([n |-> n, res |-> <<>>, j |-> 2 * ((BitLen(n) - 1) \div 2)],
                               (BitLen(n) - 1) \div 2 + 1)}} : TRUE

\* the power of two a radicand with the exponent e is scaled by, so that the
\* exponent left is even and the root has QuotientBits bits
SqrtShift(e) == QuotientBits + 1 + ((e - (QuotientBits + 1)) % 2)

\* std::sqrt(x)
FSqrt(x) ==
    CHOOSE r \in
        {IF a = NaN THEN NaN
         ELSE IF a.mant = <<>> THEN a
         ELSE IF a.neg THEN NaN
         ELSE CHOOSE s \in
                 {RoundLD(FALSE, d.root, (a.exp - SqrtShift(a.exp)) \div 2, d.rem # <<>>) :
                     d \in {BigSqrt(BigShl(a.mant, SqrtShift(a.exp)))}} : TRUE :
             a \in {x}} : TRUE

\* the magnitude of x without its fraction
IntegerPart(x) == IF -x.exp >= Mantissa THEN <<>> ELSE BigShr(x.mant, -x.exp)

\* x is not a whole number
HasFraction(x) == x.mant # <<>> /\ x.exp < 0 /\ (-x.exp >= Mantissa \/ LowBits(x.mant, -x.exp))

\* the fraction of x is a half or more
HasHalf(x) == x.exp < 0 /\ -x.exp <= Mantissa /\ IsOdd(BigShr(x.mant, -x.exp - 1))

\* the whole number of magnitude m with the sign given
Whole(neg, m) == RoundLD(neg, m, 0, FALSE)

\* std::floor
std_floor(x) ==
    IF ~HasFraction(x) THEN x
    ELSE IF x.neg THEN Whole(TRUE, BigAdd(IntegerPart(x), <<1>>))
    ELSE Whole(FALSE, IntegerPart(x))

\* std::ceil
std_ceil(x) ==
    IF ~HasFraction(x) THEN x
    ELSE IF x.neg THEN Whole(TRUE, IntegerPart(x))
    ELSE Whole(FALSE, BigAdd(IntegerPart(x), <<1>>))

\* std::trunc
std_trunc(x) == IF ~HasFraction(x) THEN x ELSE Whole(x.neg, IntegerPart(x))

\* std::round: to nearest, halfway cases away from zero
std_round(x) ==
    IF ~HasFraction(x) THEN x
    ELSE IF HasHalf(x) THEN Whole(x.neg, BigAdd(IntegerPart(x), <<1>>))
    ELSE Whole(x.neg, IntegerPart(x))

\* a number as typed on the command line: num / 10^dec, negative with neg
Dec(neg, num, dec) == [neg |-> neg, num |-> num, dec |-> dec]

\* the conversion of a number typed to long double by po::notify: the
\* nearest long double to num / (5^dec * 2^dec), for a number typed with up
\* to 5 decimals (5^dec is then a divisor of one limb)
lexical_cast(t) ==
    CHOOSE r \in
        {[q EXCEPT !.exp = IF q.mant = <<>> THEN 0 ELSE @ - t.dec] :
            q \in {FDivSize(RoundLD(t.neg, Big(t.num), 0, FALSE), 5 ^ t.dec)}} : TRUE

----------------------------------------------------------------------------
(* random *)

\* the values std::random_device{}() gives in the model
Seeds == {1, 2, 9}

\* std::generate_canonical<long double, 64>(generator) of a generator
\* constructed with a seed of Seeds, for each engine of the library
generate_canonical ==
    [minstd_rand0 |->
           1 :> [neg |-> FALSE, mant |-> <<21134, 4652, 26317, 2938, 12>>, exp |-> -64]
        @@ 2 :> [neg |-> FALSE, mant |-> <<9504, 9305, 19866, 5877, 8>>, exp |-> -64]
        @@ 9 :> [neg |-> FALSE, mant |-> <<26404, 9105, 7486, 26449, 12>>, exp |-> -64]
    ] @@
    [minstd_rand |->
           1 :> [neg |-> FALSE, mant |-> <<22967, 9892, 31282, 20369, 9>>, exp |-> -64]
        @@ 2 :> [neg |-> FALSE, mant |-> <<19912, 13605, 20882, 31887, 12>>, exp |-> -66]
        @@ 9 :> [neg |-> FALSE, mant |-> <<20302, 14228, 6073, 6211, 13>>, exp |-> -65]
    ] @@
    [mt19937 |->
           1 :> [neg |-> FALSE, mant |-> <<29733, 21891, 941, 31292, 15>>, exp |-> -64]
        @@ 2 :> [neg |-> FALSE, mant |-> <<29344, 31978, 8438, 27697, 11>>, exp |-> -66]
        @@ 9 :> [neg |-> FALSE, mant |-> <<17148, 2719, 2784, 21717, 11>>, exp |-> -65]
    ] @@
    [mt19937_64 |->
           1 :> [neg |-> FALSE, mant |-> <<15776, 23363, 22011, 18615, 8>>, exp |-> -66]
        @@ 2 :> [neg |-> FALSE, mant |-> <<2636, 4867, 24500, 14996, 14>>, exp |-> -64]
        @@ 9 :> [neg |-> FALSE, mant |-> <<11863, 27358, 11235, 9709, 8>>, exp |-> -64]
    ] @@
    [ranlux24_base |->
           1 :> [neg |-> FALSE, mant |-> <<3774, 21630, 14792, 32710, 9>>, exp |-> -65]
        @@ 2 :> [neg |-> FALSE, mant |-> <<3774, 21628, 25032, 32707, 9>>, exp |-> -64]
        @@ 9 :> [neg |-> FALSE, mant |-> <<16984, 32131, 6, 32501, 12>>, exp |-> -64]
    ] @@
    [ranlux48_base |->
           1 :> [neg |-> FALSE, mant |-> <<5407, 30926, 12607, 13150, 11>>, exp |-> -64]
        @@ 2 :> [neg |-> FALSE, mant |-> <<21629, 25060, 17663, 19841, 13>>, exp |-> -65]
        @@ 9 :> [neg |-> FALSE, mant |-> <<32131, 31358, 30334, 7354, 13>>, exp |-> -65]
    ] @@
    [ranlux24 |->
           1 :> [neg |-> FALSE, mant |-> <<3774, 21630, 14792, 32710, 9>>, exp |-> -65]
        @@ 2 :> [neg |-> FALSE, mant |-> <<3774, 21628, 25032, 32707, 9>>, exp |-> -64]
        @@ 9 :> [neg |-> FALSE, mant |-> <<16984, 32131, 6, 32501, 12>>, exp |-> -64]
    ] @@
    [ranlux48 |->
           1 :> [neg |-> FALSE, mant |-> <<5407, 30926, 12607, 13150, 11>>, exp |-> -64]
        @@ 2 :> [neg |-> FALSE, mant |-> <<21629, 25060, 17663, 19841, 13>>, exp |-> -65]
        @@ 9 :> [neg |-> FALSE, mant |-> <<32131, 31358, 30334, 7354, 13>>, exp |-> -65]
    ] @@
    [knuth_b |->
           1 :> [neg |-> FALSE, mant |-> <<27933, 24667, 20574, 20255, 8>>, exp |-> -65]
        @@ 2 :> [neg |-> FALSE, mant |-> <<7240, 27199, 9611, 2534, 11>>, exp |-> -64]
        @@ 9 :> [neg |-> FALSE, mant |-> <<2356, 13429, 2867, 31263, 15>>, exp |-> -65]
    ] @@
    [default_random_engine |->
           1 :> [neg |-> FALSE, mant |-> <<21134, 4652, 26317, 2938, 12>>, exp |-> -64]
        @@ 2 :> [neg |-> FALSE, mant |-> <<9504, 9305, 19866, 5877, 8>>, exp |-> -64]
        @@ 9 :> [neg |-> FALSE, mant |-> <<26404, 9105, 7486, 26449, 12>>, exp |-> -64]
    ]

\* the engine r_gen is instantiated with; std::default_random_engine is
\* std::minstd_rand0, and the last else of random() takes std::mt19937
GEN(generator) == IF generator \in DOMAIN generate_canonical THEN generator ELSE "mt19937"

\* DIST dis{lbound, ubound}; dis(generator), with u the canonical value of
\* the generator: u * (b - a) + a
uniform_real_distribution(a, b, u) == FAdd(FMul(u, FSub(b, a)), a)

\* RAND_MAX of the C library
RAND_MAX == 2147483647

\* the values std::rand() gives in the model
RandValues == {0, 1, 1073741824, RAND_MAX}

\* args.lbound + (std::rand() / (RAND_MAX / (args.ubound - args.lbound)))
badrandom(lbound, ubound, r) ==
    FAdd(lbound, FDiv(FromInt(r), FDiv(FromInt(RAND_MAX), FSub(ubound, lbound))))

\* what random(args) can return, from the generator and the bounds
random_values(generator, lbound, ubound) ==
    IF generator = "badrandom"
    THEN {badrandom(lbound, ubound, r) : r \in RandValues}
    ELSE {uniform_real_distribution(lbound, ubound, generate_canonical[GEN(generator)][s]) :
              s \in Seeds}

----------------------------------------------------------------------------
(* operator<< of a long double, std::fixed, with a precision *)

DigitChar(d) ==
    CASE d = 0 -> "0" [] d = 1 -> "1" [] d = 2 -> "2" [] d = 3 -> "3" [] d = 4 -> "4"
      [] d = 5 -> "5" [] d = 6 -> "6" [] d = 7 -> "7" [] d = 8 -> "8" [] d = 9 -> "9"

\* 10^n
RECURSIVE BigPow10(_)
BigPow10(n) == IF n = 0 THEN <<1>> ELSE BigMulSmall(BigPow10(n - 1), 10)

\* the decimal digits of a, none for zero
RECURSIVE BigDigits(_)
BigDigits(a) ==
    IF a = <<>> THEN <<>>
    ELSE CHOOSE r \in {Append(BigDigits(d.quot), DigitChar(d.rem)) :
                           d \in {BigDivSmall(a, 10)}} : TRUE

Zeros(n) == [k \in 1..n |-> "0"]

\* m / 2^n, n above 0, as the nearest whole number, an exact tie as the even
\* one (the conversion rounds in the current rounding mode)
RoundShift(m, n) ==
    CHOOSE r \in {IF IsOdd(BigShr(x, n - 1)) /\ (IsOdd(q) \/ LowBits(x, n - 1))
                  THEN BigAdd(q, <<1>>) ELSE q :
                      x \in {m}, q \in {BigShr(m, n)}} : TRUE

\* |v| rounded to p decimals, as a count of 10^-p
ScaledRound(v, p) ==
    IF v.mant = <<>> THEN <<>>
    ELSE IF v.exp >= 0 THEN BigShl(BigMul(v.mant, BigPow10(p)), v.exp)
    ELSE RoundShift(BigMul(v.mant, BigPow10(p)), -v.exp)

\* oss << std::fixed << std::setprecision(p) << v: the sign of v, the zero
\* has one too, the digits before the point, at least one, and with p above
\* 0 the point and p digits
fixed(v, p) ==
    CHOOSE r \in
        {(IF v.neg THEN <<"-">> ELSE <<>>)
            \o SubSeq(d, 1, Len(d) - p)
            \o (IF p = 0 THEN <<>> ELSE <<".">> \o SubSeq(d, Len(d) - p + 1, Len(d))) :
                d \in {CHOOSE t \in {Zeros(p + 1 - Len(s)) \o s :
                                         s \in {BigDigits(ScaledRound(v, p))}} : TRUE}} : TRUE

----------------------------------------------------------------------------
(* Statistics *)

\* The operators bind each argument once, as the element of a one-element
\* set, before they use it: an argument that is used twice is then still
\* evaluated once.

\* std::accumulate(begin, end, 0.0) over the first k elements of gen: the
\* accumulator is a double, each sum is computed as a long double and
\* converted to double
RECURSIVE SumTo(_, _)
SumTo(gen, k) == IF k = 0 THEN Zero ELSE ToDouble(FAdd(SumTo(gen, k - 1), gen[k]))

\* std::accumulate(generated.begin(), generated.end(), 0.0)
accumulate(gen) == SumTo(gen, Len(gen))

\* long double avg = accumulate(...) / generated.size(): a division of
\* doubles, 0.0 / 0 is NaN
Average(gen) == DDivSize(accumulate(gen), Len(gen))

\* std::pow(x, 2)
pow2(x) == CHOOSE r \in {FMul(a, a) : a \in {x}} : TRUE

\* var after the first k elements x of gen: var += std::pow(x - avg, 2)
RECURSIVE SquaresTo(_, _, _)
SquaresTo(gen, avg, k) ==
    IF k = 0 THEN Zero
    ELSE CHOOSE r \in {FAdd(before, pow2(FSub(gen[k], avg))) :
                           before \in {SquaresTo(gen, avg, k - 1)}} : TRUE

\* for(const auto & i : generated) var += std::pow(i - avg, 2)
SumSquares(gen, avg) == SquaresTo(gen, avg, Len(gen))

\* mutant: the divisor is the size less one
Variance_sample(gen) ==
    CHOOSE r \in {FDivSize(SumSquares(g, Average(g)), Len(g) - 1) : g \in {gen}} : TRUE

\* var / generated.size(), 0.0 / 0 is NaN
Variance(gen) ==
    CHOOSE r \in {FDivSize(SumSquares(g, Average(g)), Len(g)) : g \in {gen}} : TRUE

\* std::sqrt(std / generated.size())
StdDev(gen) == FSqrt(Variance(gen))

\* std::sqrt(std / generated.size()) / avg
CoefVar(gen) == FDiv(StdDev(gen), Average(gen))

\* std::minmax_element(...).first: the first of the smallest elements
MinElement(gen) ==
    gen[CHOOSE k \in 1..Len(gen) :
            /\ \A j \in 1..Len(gen) : ~FLess(gen[j], gen[k])
            /\ \A j \in 1..(k - 1) : FLess(gen[k], gen[j])]

\* std::minmax_element(...).second: the last of the largest elements
MaxElement(gen) ==
    gen[CHOOSE k \in 1..Len(gen) :
            /\ \A j \in 1..Len(gen) : ~FLess(gen[k], gen[j])
            /\ \A j \in (k + 1)..Len(gen) : FLess(gen[j], gen[k])]

\* std::max_element: the first of the largest elements
max_element(gen) ==
    gen[CHOOSE k \in 1..Len(gen) :
            /\ \A j \in 1..Len(gen) : ~FLess(gen[k], gen[j])
            /\ \A j \in 1..(k - 1) : FLess(gen[j], gen[k])]

\* the sequences with the elements of gen, each as often as in gen
SameElements(s, t) ==
    /\ Len(s) = Len(t)
    /\ \A x \in SeqSet(s) \cup SeqSet(t) :
           Cardinality({k \in 1..Len(s) : s[k] = x}) = Cardinality({k \in 1..Len(t) : t[k] = x})

Rearrangements(gen) == {s \in [1..Len(gen) -> SeqSet(gen)] : SameElements(s, gen)}

\* generated.begin() + generated.size() / 2, as a position from 1
Midpoint(gen) == Len(gen) \div 2 + 1

\* mutant: the range is cut off after the element at midpoint
nth_element_lower_half(gen) ==
    {SubSeq(s, 1, Midpoint(gen)) : s \in
        {u \in Rearrangements(gen) : \A k \in 1..(Len(u) - 1) : ~FLess(u[k + 1], u[k])}}

\* what std::nth_element(begin, midpoint, end) may leave in generated: the
\* element at midpoint is one a sort puts there, none before it is greater
\* and none after it is less; the order is otherwise unspecified
nth_element(gen) ==
    LET mid == Midpoint(gen)
    IN  {s \in Rearrangements(gen) :
            /\ \A k \in 1..(mid - 1) : ~FLess(s[mid], s[k])
            /\ \A k \in (mid + 1)..Len(s) : ~FLess(s[k], s[mid])}

\* mutant: the even case averages the lower middle element with the
\* largest element up to it
Median_lower(gen) ==
    LET mid == Len(gen) \div 2
    IN  IF Len(gen) % 2 = 0
        THEN FDivSize(FAdd(gen[mid], max_element(SubSeq(gen, 1, mid))), 2)
        ELSE gen[mid + 1]

\* auto median = *midpoint; if(size % 2 == 0) median = (median +
\* *std::max_element(begin, midpoint)) / 2, on the partitioned vector
Median(gen) ==
    LET mid == Midpoint(gen)
    IN  IF Len(gen) % 2 = 0
        THEN FDivSize(FAdd(gen[mid], max_element(SubSeq(gen, 1, mid - 1))), 2)
        ELSE gen[mid]

----------------------------------------------------------------------------
(* Command lines *)

\* the option values of an empty command line: the default_value of each
\* option, numbers as typed
Defaults ==
    [help |-> FALSE, precision |-> ld_prec, quiet |-> FALSE, list |-> FALSE,
     numbers_force |-> FALSE, number |-> 1, lbound |-> Dec(FALSE, 0, 0),
     ubound |-> Dec(FALSE, 1, 0),
     generator |-> "mt19937", ceil |-> FALSE, floor |-> FALSE, round |-> FALSE,
     trunc |-> FALSE, excluded |-> <<>>, included |-> <<>>, norepeat |-> FALSE,
     prefix |-> <<>>, suffix |-> <<>>, contains |-> <<>>, stat_all |-> FALSE,
     stat_min |-> FALSE, stat_max |-> FALSE, stat_median |-> FALSE,
     stat_avg |-> FALSE, stat_var |-> FALSE, stat_std |-> FALSE, stat_coef |-> FALSE]

\* the command line that sets the options of opts and leaves the others
With(opts) == opts @@ Defaults

\* -l -1.5 -u 0.5: the engine draws of the model are 0.4943..., -1.1298...
\* and -0.7710..., which ceil takes to 1, -1 and -0
Wide == [lbound |-> Dec(TRUE, 15, 1), ubound |-> Dec(FALSE, 5, 1)]

\* filter options of the generation runs
FilterChoices ==
    { [excluded |-> <<>>],
      [excluded |-> <<Dec(FALSE, 0, 0)>>],
      [included |-> <<Dec(FALSE, 0, 0), Dec(FALSE, 1, 0)>>],
      [excluded |-> <<Dec(FALSE, 0, 0)>>, included |-> <<Dec(FALSE, 0, 0), Dec(FALSE, 1, 0)>>],
      [prefix |-> << <<"0">> >>],
      [suffix |-> << <<"5", "5">>, <<"1">> >>],
      [contains |-> << <<"7", "7">>, <<"0">> >>] }

\* generation runs: every combination of the loop's flags over the filters
GenConfigs ==
    { With(f @@ [number |-> n, numbers_force |-> nf, quiet |-> q, list |-> l,
                 norepeat |-> nr, ceil |-> c] @@ Wide) :
        n \in 1..MaxNumber, nf \in BOOLEAN, q \in BOOLEAN, l \in BOOLEAN,
        nr \in BOOLEAN, c \in BOOLEAN, f \in FilterChoices }

PatternChoices ==
    { [prefix |-> <<>>],
      [prefix |-> << <<"0">> >>, contains |-> << <<".">>, <<>> >>],
      [suffix |-> << <<"1">>, <<"x">> >>],
      [contains |-> << <<"1", ".", "0", ".">> >>] }

\* validation runs: every combination of the options parse_args checks,
\* with -l 0 -u 0.5
ValConfigs ==
    { With(f @@ [precision |-> p, number |-> n, generator |-> g, ceil |-> c,
                 floor |-> fl, round |-> r, trunc |-> t, help |-> h,
                 ubound |-> Dec(FALSE, 5, 1)]) :
        p \in {-1, 0, 2, ld_prec, ld_prec + 1}, n \in {0, 1, 2},
        g \in {"mt19937", "badrandom", "mt19938"}, c \in BOOLEAN, fl \in BOOLEAN,
        r \in BOOLEAN, t \in BOOLEAN, h \in BOOLEAN, f \in PatternChoices }

StatChoices ==
    { [stat_all |-> TRUE], [stat_min |-> TRUE], [stat_max |-> TRUE],
      [stat_median |-> TRUE], [stat_avg |-> TRUE], [stat_var |-> TRUE],
      [stat_std |-> TRUE], [stat_coef |-> TRUE],
      [stat_median |-> TRUE, stat_avg |-> TRUE, stat_var |-> TRUE] }

\* statistics runs: -g badrandom -l 1 -u 4 --ceil --norepeat, which accepts
\* 1, 2, 3 and 4 in any order, and the engine draws of Wide with --ceil
\* and 1 and 0 excluded, which accepts -1 or nothing
StatConfigs ==
    { With(s @@ [number |-> n, generator |-> "badrandom", lbound |-> Dec(FALSE, 1, 0),
                 ubound |-> Dec(FALSE, 4, 0), ceil |-> TRUE, norepeat |-> TRUE]) :
        n \in 1..(MaxNumber + 1), s \in StatChoices }
    \cup
    { With(s @@ [number |-> n, ceil |-> TRUE, quiet |-> q,
                 excluded |-> <<Dec(FALSE, 1, 0), Dec(FALSE, 0, 0)>>] @@ Wide) :
        n \in 1..2, s \in StatChoices, q \in BOOLEAN }

\* rounding runs: each mode, or none, over the draws of badrandom for
\* -l -1.5 -u 0.5: -1.5, -1.4999..., -0.4999... and 0.5
RoundConfigs ==
    { With(f @@ [number |-> n, generator |-> "badrandom"] @@ Wide) :
        n \in 1..2,
        f \in {[ceil |-> TRUE], [floor |-> TRUE], [round |-> TRUE], [trunc |-> TRUE],
                [ceil |-> FALSE]} }

RenderChoices ==
    { [suffix |-> << <<"1", "4">> >>],
      [suffix |-> << <<"1", "5", "9">> >>],
      [suffix |-> << <<"1", "5", "9">>, <<"1", "4">> >>],
      [prefix |-> << <<"3", ".", "1", "4", "1">> >>],
      [contains |-> << <<"5", "9">> >>] }

\* pattern runs with -g badrandom -l 3.14159 -u 3.5: the draws are the long
\* double of 3.14159, 3.14159000016..., 3.3207... and 3.5
RenderConfigs ==
    { With(f @@ [number |-> n, precision |-> p, generator |-> "badrandom",
                 lbound |-> Dec(FALSE, 314159, 5), ubound |-> Dec(FALSE, 35, 1)]) :
        n \in 1..2, p \in {2, 5}, f \in RenderChoices }

\* summation-order runs: two or three engine draws of -l 0 -u 4, the
\* average and the variance with and without the median before them, with
\* numbers-force and without
OrderConfigs ==
    { With(s @@ [number |-> n, numbers_force |-> nf, ubound |-> Dec(FALSE, 4, 0)]) :
        n \in {2, 3}, nf \in BOOLEAN,
        s \in {[stat_avg |-> TRUE, stat_var |-> TRUE],
                [stat_median |-> TRUE, stat_avg |-> TRUE, stat_var |-> TRUE]} }

\* runs with the empty string or a lone point among the patterns
EmptyChoices ==
    { [prefix |-> << <<>> >>],
      [suffix |-> << <<"7">>, <<>> >>],
      [contains |-> << <<>>, <<"9">> >>],
      [prefix |-> << <<>> >>, suffix |-> << <<>> >>, contains |-> << <<>> >>],
      [prefix |-> << <<".">> >>],
      [contains |-> << <<".">> >>] }

EmptyConfigs ==
    { With(f @@ [number |-> n, precision |-> p] @@ Wide) :
        n \in 1..2, p \in {0, 2}, f \in EmptyChoices }

\* runs whose lbound is not below ubound: -l 1 -u 1 and -l 0.5 -u -1.5
BoundsConfigs ==
    { With(b @@ [number |-> n, generator |-> g]) :
        n \in 1..2, g \in {"mt19937", "badrandom"},
        b \in {[lbound |-> Dec(FALSE, 1, 0)],
                [lbound |-> Dec(FALSE, 5, 1), ubound |-> Dec(TRUE, 15, 1)]} }

\* runs with numbers-force, over the engine draws of Wide with --ceil, and
\* two runs with statistics
ForceConfigs ==
    { With(f @@ [number |-> n, numbers_force |-> TRUE, quiet |-> q, list |-> l,
                 norepeat |-> nr, ceil |-> TRUE] @@ Wide) :
        n \in 1..MaxForceNumber, q \in BOOLEAN, l \in BOOLEAN, nr \in BOOLEAN,
        f \in {[excluded |-> <<>>], [excluded |-> <<Dec(FALSE, 1, 0)>>]} }
    \cup
    { With([stat_all |-> TRUE, ceil |-> TRUE, excluded |-> e] @@ Wide) :
        e \in {<<>>, <<Dec(FALSE, 1, 0)>>} }

\* the last family: runs with --suffix 686 over the engine draws of Wide at
\* the default precision, whose texts are 0.494369616460531017947,
\* -0.771077947686252110565 and -1.129835836851971734955: none ends with
\* 686 and one has 686 as its 13th to 15th character
Configs ==
    GenConfigs \cup ValConfigs \cup StatConfigs \cup RoundConfigs \cup RenderConfigs
        \cup OrderConfigs \cup EmptyConfigs \cup BoundsConfigs
        \cup { With([suffix |-> << <<"6", "8", "6">> >>, number |-> n,
                     numbers_force |-> nf, quiet |-> q, list |-> FALSE,
                     norepeat |-> FALSE, ceil |-> FALSE] @@ Wide) :
                 n \in 1..2, nf \in BOOLEAN, q \in BOOLEAN }

----------------------------------------------------------------------------
(* Values computed once *)

\* The numbers typed in the command lines of the model, the draws of their
\* ranges and the roundings and renderings of these draws are computed at
\* start-up and looked up in the runs; a value that is not in a table is
\* computed where it is used.

\* t[k] where the table t has it, d otherwise
Lookup(t, k, d) == IF k \in DOMAIN t THEN t[k] ELSE d

\* the long double of every number typed on the command lines of the model
castTable ==
    [t \in UNION {{c.lbound, c.ubound} \cup SeqSet(c.excluded) \cup SeqSet(c.included) :
                     c \in Configs \cup ForceConfigs} |-> lexical_cast(t)] @@ <<>>

\* the conversion of an option value typed to the long double of program_args
cast(t) == Lookup(castTable, t, lexical_cast(t))

\* po::notify(vm): the option values are stored in program_args, -l, -u,
\* --exclude and --include as long doubles
notify(av) ==
    [av EXCEPT !.lbound = cast(@), !.ubound = cast(@),
               !.excluded = [k \in DOMAIN @ |-> cast(@[k])],
               !.included = [k \in DOMAIN @ |-> cast(@[k])]]

\* what random() can return for each generator and range of the model
drawTable ==
    [g \in {<<a.generator, a.lbound, a.ubound>> :
                a \in {notify(c) : c \in Configs \cup ForceConfigs}} |->
        random_values(g[1], g[2], g[3])] @@ <<>>

\* what random(args) can return
random(a) ==
    Lookup(drawTable, <<a.generator, a.lbound, a.ubound>>,
           random_values(a.generator, a.lbound, a.ubound))

\* every value a call of random() is given in the model
Draws == UNION {drawTable[g] : g \in DOMAIN drawTable}

floorTable == [v \in Draws |-> std_floor(v)] @@ <<>>

ceilTable == [v \in Draws |-> std_ceil(v)] @@ <<>>

roundTable == [v \in Draws |-> std_round(v)] @@ <<>>

truncTable == [v \in Draws |-> std_trunc(v)] @@ <<>>

\* the rendering of every value rand of the loop body has in the model, at
\* the precisions of the runs that pass parse_args
fixedTable ==
    [x \in (UNION {{v, std_floor(v), std_ceil(v), std_round(v), std_trunc(v)} : v \in Draws})
               \X ({c.precision : c \in Configs \cup ForceConfigs} \cap 0..ld_prec) |->
        fixed(x[1], x[2])] @@ <<>>

----------------------------------------------------------------------------
(* rounding *)

floor(v) == Lookup(floorTable, v, std_floor(v))

\* mutant: one more than the floor, also for a whole number
ceil_plus(v) == FAdd(floor(v), FromInt(1))

\* mutant: to the nearest whole number
ceil_nearest(v) == std_round(v)

ceil(v) == Lookup(ceilTable, v, std_ceil(v))

trunc(v) == Lookup(truncTable, v, std_trunc(v))

round(v) == Lookup(roundTable, v, std_round(v))

\* the rounding of rand at the head of the loop body
Rounded(a, v) ==
    IF a.ceil THEN ceil(v)
    ELSE IF a.floor THEN floor(v)
    ELSE IF a.round THEN round(v)
    ELSE IF a.trunc THEN trunc(v)
    ELSE v

\* the string operator<< writes for v with std::fixed and a precision
Render(v, p) == Lookup(fixedTable, <<v, p>>, fixed(v, p))

----------------------------------------------------------------------------
(* filter *)

starts_with(str, s) == Len(s) <= Len(str) /\ SubSeq(str, 1, Len(s)) = s

ends_with(str, s) == Len(s) <= Len(str) /\ SubSeq(str, Len(str) - Len(s) + 1, Len(str)) = s

\* mutant: the empty string is found in no string
contains_nonempty(str, s) ==
    /\ s # <<>>
    /\ \E k \in 0..(Len(str) - Len(s)) : SubSeq(str, k + 1, k + Len(s)) = s

contains(str, s) ==
    \E k \in 0..(Len(str) - Len(s)) : SubSeq(str, k + 1, k + Len(s)) = s

\* predicate(str, s), the predicate named by kind
Predicate(kind, str, s) ==
    CASE kind = "prefix" -> starts_with(str, s)
      [] kind = "suffix" -> ends_with(str, s)
      [] kind = "contains" -> contains(str, s)

\* std::none_of(fx.begin(), fx.end(), ...): no string of fx matches str
none_of(fx, str, kind) == \A k \in 1..Len(fx) : ~Predicate(kind, str, fx[k])

\* the characters the std::string of a std::ostringstream holds without an
\* allocation
SSOLen == 15

\* filter(rand, precision, fx, predicate) with predicate named by kind:
\* TRUE when no string of fx matches str_rand, the text read back from the
\* std::ostringstream after oss << std::fixed << std::setprecision(precision)
\* << rand.  A text of more than SSOLen characters makes the stream buffer
\* allocate; when that allocation fails the stream catches the
\* std::bad_alloc and sets its badbit, which filter does not look at, and
\* str_rand is the first SSOLen characters of the text (failed: the
\* allocation of the stream buffer fails)
filter(val, precision, fx, kind, failed) ==
    \E text \in {Render(val, precision)} :
        \E str_rand \in {IF failed /\ Len(text) > SSOLen THEN SubSeq(text, 1, SSOLen) ELSE text} :
            none_of(fx, str_rand, kind)

\* std::find(first, last, val) != last: some element compares equal to val
\* with operator==, under which the two zeros are equal
find(s, val) == \E k \in 1..Len(s) : FEq(s[k], val)

\* the tests of the chain after the excluded and the included test; cut:
\* the calls of filter, named by their predicate, in which the allocation
\* of the stream buffer fails
RejectedLater(a, gen, val, cut) ==
    IF a.norepeat /\ find(gen, val) THEN TRUE
    ELSE IF a.prefix # <<>> /\ filter(val, a.precision, a.prefix, "prefix", "prefix" \in cut)
    THEN TRUE
    ELSE IF a.suffix # <<>> /\ filter(val, a.precision, a.suffix, "suffix", "suffix" \in cut)
    THEN TRUE
    ELSE IF a.contains # <<>>
              /\ filter(val, a.precision, a.contains, "contains", "contains" \in cut)
    THEN TRUE
    ELSE FALSE

\* mutant: the included test comes first and a listed value skips the excluded test
Rejected_included_first(a, gen, val, cut) ==
    IF a.included # <<>> /\ ~find(a.included, val) THEN TRUE
    ELSE IF a.included = <<>> /\ a.excluded # <<>> /\ find(a.excluded, val) THEN TRUE
    ELSE RejectedLater(a, gen, val, cut)

\* mutant: the repeat test looks at the last accepted value only
Rejected_last_only(a, gen, val, cut) ==
    IF a.excluded # <<>> /\ find(a.excluded, val) THEN TRUE
    ELSE IF a.included # <<>> /\ ~find(a.included, val) THEN TRUE
    ELSE IF a.norepeat /\ gen # <<>> /\ FEq(val, gen[Len(gen)]) THEN TRUE
    ELSE RejectedLater([a EXCEPT !.norepeat = FALSE], gen, val, cut)

\* mutant: the repeat test does not look at the norepeat flag
Rejected_always_norepeat(a, gen, val, cut) ==
    IF a.excluded # <<>> /\ find(a.excluded, val) THEN TRUE
    ELSE IF a.included # <<>> /\ ~find(a.included, val) THEN TRUE
    ELSE RejectedLater([a EXCEPT !.norepeat = TRUE], gen, val, cut)

\* the chain of tests of the loop body: TRUE when the body takes a continue
Rejected(a, gen, val, cut) ==
    IF a.excluded # <<>> /\ find(a.excluded, val) THEN TRUE
    ELSE IF a.included # <<>> /\ ~find(a.included, val) THEN TRUE
    ELSE RejectedLater(a, gen, val, cut)
----------------------------------------------------------------------------
(* main *)

\* if(args.generator == "badrandom") std::srand(std::time(nullptr)): the
\* seedings after the set-up of the loop
srand(a, n) == IF a.generator = "badrandom" THEN n + 1 ELSE n

\* the seedings after one call of random(): every generator but badrandom
\* goes through r_gen, which constructs an engine from std::random_device{}()
r_gen(a, n) == IF a.generator = "badrandom" THEN n ELSE n + 1

StatOrder == <<"minmax", "median", "avg", "var", "std", "coef">>

\* the condition of each if-block of the statistics
Want(a, label) ==
    CASE label = "minmax" -> a.stat_all \/ a.stat_min \/ a.stat_max
      [] label = "median" -> a.stat_all \/ a.stat_median
      [] label = "avg" -> a.stat_all \/ a.stat_avg
      [] label = "var" -> a.stat_all \/ a.stat_var
      [] label = "std" -> a.stat_all \/ a.stat_std
      [] label = "coef" -> a.stat_all \/ a.stat_coef

\* the first if-block after position k of StatOrder that is entered
After(a, k) ==
    LET later == {n \in (k + 1)..Len(StatOrder) : Want(a, StatOrder[n])}
    IN  IF later = {} THEN "return"
        ELSE StatOrder[CHOOSE n \in later : \A m \in later : n <= m]

InitWith(configs) ==
    /\ argv \in configs
    /\ args = notify(argv)
    /\ pc = "parse"
    /\ result = <<>>
    /\ i = 0
    /\ list_cnt = 0
    /\ draws = 0
    /\ seeds = 0
    /\ rand = <<>>
    /\ generated = <<>>
    /\ out = <<>>
    /\ stats = <<>>
    /\ accepted = <<>>
    /\ badbit = FALSE
    /\ twin = [pc |-> "parse", i |-> 0, generated |-> <<>>]

Init == InitWith(Configs)

InitForce == InitWith(ForceConfigs)

\* the other run after an exception: the locals of main are gone
Failed == [pc |-> "failed", i |-> 0, generated |-> <<>>]

\* the command line with --quiet the other way round
Flip(a) == [a EXCEPT !.quiet = ~@]

\* switch(parse_args(args, argc, argv)), then the set-up of the loop; an
\* allocation of parse_args can fail, with std::bad_alloc, which the catch
\* of main turns into known_err: in the option parser or in gen_opts, with
\* args as po::notify left it, or, once the checks before it are passed, in
\* the vector of the pattern sets, with the precision already set to 0 for
\* a rounding mode.  The other run fails or not on its own.
ParseArgs ==
    /\ pc = "parse"
    /\ \/ LET r == parse_args(args)
          IN  /\ args' = r.args
              /\ IF r.code = success
                 THEN /\ pc' = "loop"
                      /\ i' = 1
                      /\ result' = result
                      /\ seeds' = srand(r.args, seeds)
                 ELSE /\ pc' = "exit"
                      /\ i' = i
                      /\ result' = <<IF r.code = success_help THEN 0 ELSE r.code>>
                      /\ seeds' = seeds
       \/ /\ args' \in {args} \cup (IF parse_args(args).code \in {vect_nan, success}
                                    THEN {OverridePrecision(args)} ELSE {})
          /\ pc' = "exit"
          /\ result' = <<known_err>>
          /\ UNCHANGED <<i, seeds>>
    /\ \E bad_alloc \in BOOLEAN :
          twin' = IF bad_alloc THEN Failed
                  ELSE IF parse_args(Flip(args)).code = success
                  THEN [twin EXCEPT !.pc = "loop", !.i = 1]
                  ELSE [twin EXCEPT !.pc = "exit"]
    /\ UNCHANGED <<argv, list_cnt, draws, rand, generated, out, stats, accepted, badbit>>

\* mutant: the value is put before the values accepted so far
push_front(gen, val) == <<val>> \o gen

\* generated.push_back(rand)
push_back(gen, val) == Append(gen, val)

\* push_back on a vector of n elements has no spare element and allocates:
\* a vector that grew by push_back alone has room for 0, 1, 2, 4, 8, ...
\* elements
Reallocates(n) == n = 0 \/ \E k \in 0..n : 2 ^ k = n

\* the calls of filter that come before the call of kind in the chain
Before(kind) ==
    CASE kind = "prefix" -> {}
      [] kind = "suffix" -> {"prefix"}
      [] kind = "contains" -> {"prefix", "suffix"}

\* the calls of filter a pass makes when none of them throws: the call of a
\* pattern set that is given is made when the tests before it let the value
\* through; cut: the calls in which the allocation of the stream buffer
\* fails
Called(a, gen, val, cut) ==
    IF \/ a.excluded # <<>> /\ find(a.excluded, val)
       \/ a.included # <<>> /\ ~find(a.included, val)
       \/ a.norepeat /\ find(gen, val)
    THEN {}
    ELSE {k \in {"prefix", "suffix", "contains"} :
            /\ a[k] # <<>>
            /\ \A j \in Before(k) :
                  ~(a[j] # <<>> /\ filter(val, a.precision, a[j], j, j \in cut))}

\* the sets of calls of filter in which the allocation of the stream buffer
\* can fail in one pass: calls that are made, for a text that needs one
Cuts(a, gen, val) ==
    IF Len(Render(val, a.precision)) > SSOLen
    THEN {cut \in SUBSET {"prefix", "suffix", "contains"} : cut \subseteq Called(a, gen, val, cut)}
    ELSE {{}}

\* mutant: the line is put before the lines written so far
Emit_front(o, line) == <<line>> \o o

\* std::cout << ... << args.delim: the line goes to the end of the output
Emit(o, line) == Append(o, line)

\* the line written for an accepted value
Line(a, idx, cnt, val) ==
    [pre  |-> (IF a.list /\ a.numbers_force THEN <<idx>> ELSE <<>>)
              \o (IF a.list THEN <<cnt>> ELSE <<>>),
     text |-> Render(val, a.precision)]

\* mutant: only an accepted value counts
AfterHead_never(a, idx) == idx

\* if(!args.numbers_force) ++i, at the head of the body
AfterHead(a, idx) == IF ~a.numbers_force THEN idx + 1 ELSE idx

\* if(!args.quiet) { ...; if(args.numbers_force) ++i; }
AfterEmit(a, idx) == IF ~a.quiet /\ a.numbers_force THEN idx + 1 ELSE idx

\* one pass through the body of the generation loop, val being what random()
\* returned after the rounding of lines 237-243, for a run with the options a
\* at st; cut: the calls of filter in which the
\* allocation of the stream buffer fails, which the pass survives;
\* bad_alloc: another allocation of the pass fails, if it makes one: the
\* std::function of random() (every generator but badrandom), the
\* std::string of oss.str() in a call of filter that has its stream buffer,
\* for a text of more than SSOLen characters, or the storage of push_back
Pass(a, st, val, cut, bad_alloc) ==
    IF /\ bad_alloc
       /\ \/ a.generator # "badrandom"
          \/ /\ Len(Render(val, a.precision)) > SSOLen
             /\ Called(a, st.generated, val, cut) \ cut # {}
    THEN Failed
    ELSE IF Rejected(a, st.generated, val, cut)
    THEN [st EXCEPT !.i = AfterHead(a, st.i)]
    ELSE IF bad_alloc /\ Reallocates(Len(st.generated))
    THEN Failed
    ELSE [st EXCEPT !.i = AfterEmit(a, AfterHead(a, st.i)), !.generated = push_back(@, val)]

\* the loop condition i <= args.number, tested after a pass
Test(a, st) == IF st.pc = "loop" /\ st.i > a.number THEN [st EXCEPT !.pc = "done"] ELSE st

\* the pass of the other run, which is given the draw of the run, val after
\* its rounding, and has allocations of its own
TwinPass(val, cut, bad_alloc) ==
    IF twin.pc = "loop" THEN Test(Flip(args), Pass(Flip(args), twin, val, cut, bad_alloc)) ELSE twin

\* one pass through the body of the generation loop, random() returning d.
\* An allocation of the pass can fail.  In a call of filter whose text has
\* more than SSOLen characters the allocation of the stream buffer can fail
\* (cut: the calls in which it does): the stream keeps the std::bad_alloc to
\* itself and the pass goes on with the first SSOLen characters.  Any other
\* allocation that fails ends the pass with std::bad_alloc, which the catch
\* of main turns into known_err.  The other run is another process: its
\* stream buffers (tcut) and its other allocations fail or not on their own.
\* A run is followed for DrawCap passes and MaxLen accepted values: no pass
\* after that is in the model.
Step(d) ==
    /\ pc = "loop"
    /\ i <= args.number
    /\ draws < DrawCap
    /\ Len(generated) < MaxLen
    /\ d \in random(args)
    /\ \E r \in {Rounded(args, d)} :
         \E cut \in Cuts(args, generated, r) :
           \E continue \in {Rejected(args, generated, r, cut)} :
             \E own \in BOOLEAN :
               LET i1  == AfterHead(args, i)
                   cnt == IF args.list THEN list_cnt + 1 ELSE list_cnt
               IN  /\ draws' = draws + 1
                   /\ seeds' = r_gen(args, seeds)
                   /\ list_cnt' = cnt
                   /\ \/ \* random() throws: the std::function that r_gen returns
                         \* holds the engine and the distribution on the heap, for
                         \* every engine; badrandom does not go through r_gen
                         /\ args.generator # "badrandom"
                         /\ own = FALSE
                         /\ rand' = <<>>
                         /\ i' = i1
                         /\ pc' = "exit"
                         /\ result' = <<known_err>>
                         /\ UNCHANGED <<generated, out, accepted>>
                      \/ \* oss.str() throws in a call of filter that has its
                         \* stream buffer; the calls before it were made
                         /\ Len(Render(r, args.precision)) > SSOLen
                         /\ \E k \in Called(args, generated, r, cut) \ cut :
                               own = (cut \cap Before(k) # {})
                         /\ rand' = <<r>>
                         /\ i' = i1
                         /\ pc' = "exit"
                         /\ result' = <<known_err>>
                         /\ UNCHANGED <<generated, out, accepted>>
                      \/ \* push_back throws
                         /\ ~continue
                         /\ Reallocates(Len(generated))
                         /\ own = (cut # {})
                         /\ rand' = <<r>>
                         /\ i' = i1
                         /\ pc' = "exit"
                         /\ result' = <<known_err>>
                         /\ UNCHANGED <<generated, out, accepted>>
                      \/ /\ continue
                         /\ own = (cut # {})
                         /\ rand' = <<r>>
                         /\ i' = i1
                         /\ UNCHANGED <<pc, result, generated, out, accepted>>
                      \/ /\ ~continue
                         /\ own = (cut # {})
                         /\ rand' = <<r>>
                         /\ generated' = push_back(generated, r)
                         /\ accepted' = push_back(accepted, r)
                         /\ out' = IF ~args.quiet THEN Emit(out, Line(args, i1, cnt, r)) ELSE out
                         /\ i' = AfterEmit(args, i1)
                         /\ UNCHANGED <<pc, result>>
                   /\ \E val \in {Rounded(Flip(args), d)} :
                        \E tcut \in (IF twin.pc = "loop"
                                     THEN Cuts(Flip(args), twin.generated, val) ELSE {{}}) :
                          \E bad_alloc \in BOOLEAN :
                            /\ twin' = TwinPass(val, tcut, bad_alloc)
                            /\ badbit' = (badbit \/ own \/ tcut # {})
    /\ UNCHANGED <<argv, args, stats>>

\* the loop condition fails; rand is a local of the loop body
LoopExit ==
    /\ pc = "loop"
    /\ i > args.number
    /\ pc' = After(args, 0)
    /\ rand' = <<>>
    /\ UNCHANGED <<argv, args, twin, result, i, list_cnt, draws, seeds, generated, out, stats, accepted, badbit>>

\* a read through end() of the empty vector: undefined behaviour, which
\* either ends the process or yields some value that is then written
ReadEnd(k, labels) ==
    \/ /\ pc' = "crashed"
       /\ stats' = stats
    \/ /\ pc' = After(args, k)
       /\ stats' = stats \o [n \in 1..Len(labels) |-> <<labels[n], Indeterminate>>]

MinMaxLabels(a) ==
    (IF a.stat_all \/ a.stat_min THEN <<"min">> ELSE <<>>)
        \o (IF a.stat_all \/ a.stat_max THEN <<"max">> ELSE <<>>)

MinMax ==
    /\ pc = "minmax"
    /\ IF generated = <<>>
       THEN ReadEnd(1, MinMaxLabels(args))
       ELSE /\ pc' = After(args, 1)
            /\ stats' = stats
                 \o (IF args.stat_all \/ args.stat_min
                     THEN << <<"min", MinElement(generated)>> >> ELSE <<>>)
                 \o (IF args.stat_all \/ args.stat_max
                     THEN << <<"max", MaxElement(generated)>> >> ELSE <<>>)
    /\ UNCHANGED <<argv, args, twin, result, i, list_cnt, draws, seeds, rand, generated, out, accepted, badbit>>

MedianStat ==
    /\ pc = "median"
    /\ IF generated = <<>>
       THEN /\ ReadEnd(2, <<"median">>)
            /\ generated' = generated
       ELSE \E s \in nth_element(generated) :
                /\ generated' = s
                /\ pc' = After(args, 2)
                /\ stats' = Append(stats, <<"median", Median(s)>>)
    /\ UNCHANGED <<argv, args, twin, result, i, list_cnt, draws, seeds, rand, out, accepted, badbit>>

Avg ==
    /\ pc = "avg"
    /\ pc' = After(args, 3)
    /\ stats' = Append(stats, <<"avg", Average(generated)>>)
    /\ UNCHANGED <<argv, args, twin, result, i, list_cnt, draws, seeds, rand, generated, out, accepted, badbit>>

Var ==
    /\ pc = "var"
    /\ pc' = After(args, 4)
    /\ stats' = Append(stats, <<"variance", Variance(generated)>>)
    /\ UNCHANGED <<argv, args, twin, result, i, list_cnt, draws, seeds, rand, generated, out, accepted, badbit>>

Std ==
    /\ pc = "std"
    /\ pc' = After(args, 5)
    /\ stats' = Append(stats, <<"standard deviation", StdDev(generated)>>)
    /\ UNCHANGED <<argv, args, twin, result, i, list_cnt, draws, seeds, rand, generated, out, accepted, badbit>>

Coef ==
    /\ pc = "coef"
    /\ pc' = After(args, 6)
    /\ stats' = Append(stats, <<"coefficient of variation", CoefVar(generated)>>)
    /\ UNCHANGED <<argv, args, twin, result, i, list_cnt, draws, seeds, rand, generated, out, accepted, badbit>>

\* return returnID::success
Return ==
    /\ pc = "return"
    /\ pc' = "exit"
    /\ result' = <<success>>
    /\ UNCHANGED <<argv, args, twin, i, list_cnt, draws, seeds, rand, generated, out, stats, accepted, badbit>>

Next ==
    \/ ParseArgs
    \/ \E d \in Draws : Step(d)
    \/ LoopExit
    \/ MinMax
    \/ MedianStat
    \/ Avg
    \/ Var
    \/ Std
    \/ Coef
    \/ Return

Spec == Init /\ [][Next]_vars

\* The process is scheduled until it ends, and the engine returns every value
\* of its range, in the runs of ForceConfigs, again and again.
FairSpec ==
    /\ InitForce /\ [][Next]_vars
    /\ \A d \in UNION {random(notify(c)) : c \in ForceConfigs} : WF_vars(Step(d))
    /\ WF_vars(ParseArgs \/ LoopExit \/ MinMax \/ MedianStat \/ Avg \/ Var \/ Std \/ Coef \/ Return)
----------------------------------------------------------------------------
(* Properties *)

StatLabels == {StatOrder[k] : k \in 1..Len(StatOrder)}

\* the generation loop was left through its condition
LoopDone ==
    \/ pc \in StatLabels \cup {"return", "crashed"}
    \/ pc = "exit" /\ result = <<success>> /\ ~argv.help

\* the value with the sign of a zero dropped: -0 == 0 in the program
Canon(x) == IF IsFinite(x) /\ x.mant = <<>> THEN Zero ELSE x

\* the values the filter chain lets through, repeats aside, every text
\* read in full
Acceptable(a) ==
    {v \in {Rounded(a, d) : d \in random(a)} :
        ~Rejected([a EXCEPT !.norepeat = FALSE], <<>>, v, {})}

\* some draw passes the chain, and with norepeat enough different ones do
Satisfiable(a) ==
    /\ Acceptable(a) # {}
    /\ a.norepeat => Cardinality({Canon(v) : v \in Acceptable(a)}) >= a.number

NoFilter(a) ==
    /\ a.excluded = <<>> /\ a.included = <<>> /\ ~a.norepeat
    /\ a.prefix = <<>> /\ a.suffix = <<>> /\ a.contains = <<>>

One == FromInt(1)

Half == FDivSize(One, 2)

\* x <= y
FLessEq(x, y) == ~FLess(y, x)

Magnitude(x) == [x EXCEPT !.neg = FALSE]

\* x * 2^k
Scale(x, k) == IF x.mant = <<>> THEN x ELSE [x EXCEPT !.exp = @ + k]

\* x is y, or differs from y by less than a 2^40th of y
Near(x, y) ==
    IF IsFinite(x) /\ IsFinite(y)
    THEN FEq(x, y) \/ FLess(Magnitude(FSub(x, y)), Scale(Magnitude(y), -40))
    ELSE x = y

RECURSIVE BigToInt(_)
BigToInt(a) == IF a = <<>> THEN 0 ELSE a[1] + Base * BigToInt(Tail(a))

\* the integer a whole long double is
ToInt(x) == IF x.neg THEN -BigToInt(IntegerPart(x)) ELSE BigToInt(IntegerPart(x))

IsWhole(x) == IsFinite(x) /\ ~HasFraction(x)

\* C1: with numbers-force set and a satisfiable filter chain the generation
\* loop eventually ends, and it ends with exactly `number` accepted values,
\* whatever the other flags are: the loop never holds more than `number`
\* accepted values, and a run in the loop comes to the end of the loop with
\* `number` values.  A run that an exception ends, or that is followed for
\* DrawCap passes, before it has `number` values is left aside.
C1_ForcedCount ==
    /\ []( (pc = "loop" /\ args.numbers_force /\ Satisfiable(args))
              => Len(generated) <= args.number )
    /\ (pc = "loop" /\ args.numbers_force /\ Satisfiable(args))
          ~> \/ LoopDone /\ Len(generated) = args.number
             \/ result = <<known_err>> /\ Len(generated) < args.number
             \/ draws = DrawCap /\ Len(generated) < args.number

\* C2: with numbers-force unset every pass of the loop consumes one unit of
\* the budget: there are never more than `number` draws nor more accepted
\* values than draws, the loop variable counts the draws, and the loop ends
\* after exactly `number` draws; the one other way out of the loop is the
\* exception of an allocation that fails, after at most `number` draws, the
\* last of which was not accepted.
C2_DrawBudget ==
    ~args.numbers_force =>
        /\ (pc = "loop" \/ LoopDone) =>
              /\ Len(generated) <= draws
              /\ draws <= args.number
              /\ Len(generated) <= args.number
              /\ pc = "loop" => draws = i - 1
              /\ LoopDone => draws = args.number
        /\ result = <<known_err>> =>
              /\ pc = "exit"
              /\ draws <= args.number \/ draws = 0
              /\ Len(generated) <= draws
              /\ draws > 0 => Len(generated) < draws

\* a run without numbers-force that ended with a draw rejected
C2_Witness ==
    /\ ~args.numbers_force
    /\ LoopDone
    /\ args.number >= 2
    /\ draws = args.number
    /\ Len(generated) < args.number

\* C3: with no filter active and numbers-force unset the accepted sequence
\* has exactly `number` elements when the loop has ended.
C3_NoFilterCount ==
    (NoFilter(args) /\ ~args.numbers_force /\ LoopDone) => Len(generated) = args.number

\* a run without filters that ended with the same value accepted twice
C3_Witness ==
    /\ NoFilter(args)
    /\ ~args.numbers_force
    /\ LoopDone
    /\ Len(generated) = args.number
    /\ Len(generated) >= 2
    /\ generated[1] = generated[2]

\* the k-th smallest element of gen
OrderStat(gen, k) ==
    CHOOSE x \in SeqSet(gen) :
        /\ Cardinality({j \in 1..Len(gen) : FLess(gen[j], x)}) < k
        /\ k <= Cardinality({j \in 1..Len(gen) : FLessEq(gen[j], x)})

\* the values written under a label
StatLines(label) == {stats[k][2] : k \in {j \in 1..Len(stats) : stats[j][1] = label}}

MedianLines == StatLines("median")

OneToFour == <<FromInt(1), FromInt(2), FromInt(3), FromInt(4)>>

\* C4, as claimed: the median of an even number of accepted values is the
\* average of the lower middle element and the largest element of the lower
\* half, so that 1, 2, 3, 4 give 2; the median of an odd number is the middle
\* element.
C4_MedianLowerMiddle ==
    generated # <<>> =>
        \A m \in MedianLines :
            LET n == Len(generated)
            IN  /\ n % 2 = 0 =>
                     FEq(m, FDivSize(FAdd(OrderStat(generated, n \div 2),
                                          OrderStat(generated, n \div 2)), 2))
                /\ n % 2 = 1 => FEq(m, OrderStat(generated, (n + 1) \div 2))
                /\ SameElements(generated, OneToFour) => m = FromInt(2)

\* C4, amended: the median of an even number of accepted values is the
\* average of the upper middle element and the largest element of the lower
\* half, which is the lower middle element, so that 1, 2, 3, 4 give 2.5; the
\* median of an odd number is the middle element.
C4_Median ==
    generated # <<>> =>
        \A m \in MedianLines :
            LET n == Len(generated)
            IN  /\ n % 2 = 0 =>
                     FEq(m, FDivSize(FAdd(OrderStat(generated, n \div 2 + 1),
                                          OrderStat(generated, n \div 2)), 2))
                /\ n % 2 = 1 => FEq(m, OrderStat(generated, (n + 1) \div 2))
                /\ SameElements(generated, OneToFour) => m = FDivSize(FromInt(5), 2)

\* the median of 1, 2, 3, 4 in some order was written, as 2.5
C4_Witness ==
    /\ SameElements(generated, OneToFour)
    /\ MedianLines = {FDivSize(FromInt(5), 2)}

ValidationCodes == {overd_err, underd_err, zero_err, gen_err, conflict_err, vect_nan}

\* C5: with exactly one rounding mode on the command line (and nothing else
\* for validation to reject), validation succeeds and leaves precision at 0,
\* whatever precision was requested; a run that ran out of memory aside.
C5_RoundingForcesPrecision ==
    ( /\ pc # "parse"
      /\ result # <<known_err>>
      /\ ~argv.help
      /\ RoundingCount(argv) = 1
      /\ argv.number >= 1
      /\ argv.generator \in gen_opts
      /\ ~AnyNotNumeric(argv) )
    => /\ args.precision = 0
       /\ \A c \in ValidationCodes : result # <<c>>

\* the first check that fails, in the order the checks were claimed to run in
ClaimedFirst(a) ==
    IF a.number < 1 THEN zero_err
    ELSE IF RoundingCount(a) > 1 THEN conflict_err
    ELSE IF a.precision > ld_prec THEN overd_err
    ELSE IF a.precision < 0 THEN underd_err
    ELSE IF a.generator \notin gen_opts THEN gen_err
    ELSE IF AnyNotNumeric(a) THEN vect_nan
    ELSE success

\* the first check that fails, in the order precision too large, precision
\* negative, count, generator, rounding modes, patterns
AmendedFirst(a) ==
    IF a.precision > ld_prec THEN overd_err
    ELSE IF a.precision < 0 THEN underd_err
    ELSE IF a.number < 1 THEN zero_err
    ELSE IF a.generator \notin gen_opts THEN gen_err
    ELSE IF RoundingCount(a) > 1 THEN conflict_err
    ELSE IF AnyNotNumeric(a) THEN vect_nan
    ELSE success

\* C6, as claimed: the checks run in the order count, rounding modes,
\* precision, generator, patterns, and a command line that fails several of
\* them ends with the error of the first one it fails, if the option parser
\* did not run out of memory.
C6_ClaimedOrder ==
    (pc # "parse" /\ ~argv.help /\ ClaimedFirst(argv) # success)
        => (pc = "exit" /\ result \in {<<ClaimedFirst(argv)>>, <<known_err>>})

\* C6, amended: the checks run in the order precision too large, precision
\* negative, count, generator, rounding modes, patterns, and a command line
\* that fails several of them ends with the error of the first one it fails,
\* if the option parser did not run out of memory.
C6_Order ==
    (pc # "parse" /\ ~argv.help /\ AmendedFirst(argv) # success)
        => (pc = "exit" /\ result \in {<<AmendedFirst(argv)>>, <<known_err>>})

\* a command line that fails the count, rounding and precision checks ended
\* with the precision error
C6_Witness ==
    /\ pc = "exit"
    /\ argv.number < 1
    /\ RoundingCount(argv) > 1
    /\ argv.precision > ld_prec
    /\ result = <<overd_err>>

\* the exit code of each kind of validation failure
KindCode ==
    [over |-> overd_err, under |-> underd_err, zero |-> zero_err,
     gen |-> gen_err, conflict |-> conflict_err, nan |-> vect_nan]

\* the kinds of failure a command line has
Violations(a) ==
    {k \in DOMAIN KindCode :
        CASE k = "over" -> a.precision > ld_prec
          [] k = "under" -> a.precision < 0
          [] k = "zero" -> a.number < 1
          [] k = "gen" -> a.generator \notin gen_opts
          [] k = "conflict" -> RoundingCount(a) > 1
          [] k = "nan" -> AnyNotNumeric(a)}

\* C7: the exit codes of the kinds of validation failure are non-zero and
\* pairwise different, and a command line with a failure ends the process
\* with the code of one of its failures (or, out of memory, with the code of
\* an exception, which is none of them), before any draw, value line or
\* statistic line.
C7_TerminalDistinct ==
    /\ \A k \in DOMAIN KindCode : KindCode[k] \notin {success, known_err}
    /\ \A k1, k2 \in DOMAIN KindCode : k1 # k2 => KindCode[k1] # KindCode[k2]
    /\ (pc # "parse" /\ ~argv.help /\ Violations(argv) # {}) =>
          /\ pc = "exit"
          /\ result = <<known_err>> \/ \E k \in Violations(argv) : result = <<KindCode[k]>>
          /\ draws = 0 /\ generated = <<>> /\ out = <<>> /\ stats = <<>>

\* a command line whose only failure is a pattern ended with that code
C7_Witness ==
    /\ pc = "exit"
    /\ Violations(argv) = {"nan"}
    /\ result = <<vect_nan>>
    /\ draws = 0

\* C8: when the loop ends with nothing accepted, every statistic written is
\* a not-a-number; no element of the empty sequence is read and the process
\* does not crash.
C8_EmptyStatsClean ==
    (LoopDone /\ generated = <<>>) =>
        /\ pc # "crashed"
        /\ \A k \in 1..Len(stats) : stats[k][2] = NaN

\* C9: a value that is both excluded and included is never accepted.
C9_ExcludedWins ==
    \A k \in 1..Len(generated) :
        ~(find(args.excluded, generated[k]) /\ find(args.included, generated[k]))

\* a value both excluded and included was drawn after another was accepted
C9_Witness ==
    /\ pc = "loop"
    /\ rand # <<>>
    /\ find(args.excluded, rand[1])
    /\ find(args.included, rand[1])
    /\ generated # <<>>

\* C10: with norepeat the accepted values are pairwise different, in every
\* state.
C10_NoRepeatDistinct ==
    args.norepeat =>
        \A j, k \in 1..Len(generated) : j # k => ~FEq(generated[j], generated[k])

\* with norepeat as the only filter, a value accepted before the last
\* accepted one was drawn again and not accepted
C10_Witness ==
    /\ args.norepeat
    /\ args.excluded = <<>> /\ args.included = <<>>
    /\ args.prefix = <<>> /\ args.suffix = <<>> /\ args.contains = <<>>
    /\ Len(generated) >= 2
    /\ draws > Len(generated)
    /\ rand # <<>>
    /\ find(generated, rand[1])
    /\ ~FEq(rand[1], generated[Len(generated)])

\* some pattern of the set fx matches the string str
SomeMatch(str, fx, kind) ==
    \E k \in 1..Len(fx) :
        CASE kind = "prefix" -> starts_with(str, fx[k])
          [] kind = "suffix" -> ends_with(str, fx[k])
          [] kind = "contains" -> contains(str, fx[k])

\* the value passes every active test
Passes(a, gen, val) ==
    /\ \A k \in 1..Len(a.excluded) : ~FEq(a.excluded[k], val)
    /\ a.included = <<>> \/ \E k \in 1..Len(a.included) : FEq(a.included[k], val)
    /\ ~a.norepeat \/ \A k \in 1..Len(gen) : ~FEq(gen[k], val)
    /\ a.prefix = <<>> \/ SomeMatch(Render(val, a.precision), a.prefix, "prefix")
    /\ a.suffix = <<>> \/ SomeMatch(Render(val, a.precision), a.suffix, "suffix")
    /\ a.contains = <<>> \/ SomeMatch(Render(val, a.precision), a.contains, "contains")

\* C11: a pass of the loop appends the drawn value, after rounding, to the
\* accepted sequence if and only if the value passes every active test
\* (excluded, included, no-repeat, and for each non-empty pattern set a match
\* of at least one pattern); otherwise it leaves the sequence as it is.
C11_AcceptIff ==
    [][ (pc = "loop" /\ pc' = "loop") =>
            /\ rand' # <<>>
            /\ generated' = Append(generated, rand'[1]) <=> Passes(args, generated, rand'[1])
            /\ generated' = generated <=> ~Passes(args, generated, rand'[1]) ]_vars

\* a value whose text no pattern of the suffix set ends was appended: the
\* last value drawn is the last value accepted and does not pass the tests
C11_Witness ==
    /\ pc = "loop"
    /\ rand # <<>>
    /\ generated # <<>>
    /\ generated[Len(generated)] = rand[1]
    /\ args.suffix # <<>>
    /\ ~Passes(args, SubSeq(generated, 1, Len(generated) - 1), rand[1])

\* C12: in one run there is one seeding: never more than one, and exactly
\* one once a value was drawn.
C12_SingleEngine ==
    /\ seeds <= 1
    /\ draws > 0 => seeds = 1

\* C13: while the loop runs, and after it until the median rearranges the
\* accepted sequence, the lines written without quiet are the accepted values
\* in their order; a statistic line is written only after the loop has ended,
\* when every accepted value has its line.
C13_ProgramOrder ==
    /\ (~args.quiet /\ (pc = "loop" \/ (LoopDone /\ stats = <<>>))) =>
          /\ Len(out) = Len(generated)
          /\ \A k \in 1..Len(out) : out[k].text = Render(generated[k], args.precision)
    /\ stats # <<>> =>
          /\ pc \notin {"parse", "loop"}
          /\ ~args.quiet => Len(out) = Len(generated)

\* two different values were written, in the order of their acceptance, and
\* a statistic line after them
C13_Witness ==
    /\ ~args.quiet
    /\ stats # <<>>
    /\ Len(out) >= 2
    /\ out[1].text # out[2].text
    /\ Len(out) = Len(generated)

\* C14: in list mode without quiet the k-th value line written carries one
\* number, k, whatever the filters and numbers-force are.
C14_ListPosition ==
    (args.list /\ ~args.quiet) => \A k \in 1..Len(out) : out[k].pre = <<k>>

\* the long double of 3.14159
Pi == cast(Dec(FALSE, 314159, 5))

\* the digits of 3.14159 at precision 2
Str314 == <<"3", ".", "1", "4">>

\* the run draws from 3.14159 on and renders with p decimals
DrawsPi(a, p) == a.lbound = Pi /\ a.generator = "badrandom" /\ a.precision = p

\* C15: the patterns are matched against the value rendered with the
\* configured precision: 3.14159 at precision 2 is "3.14", which the suffix
\* "14" matches and the suffix "159" does not, so a run at precision 2 with
\* suffix "14" accepts the draw 3.14159 and one with suffix "159" accepts
\* nothing, while at precision 5 the suffix "159" accepts that draw; and
\* every value accepted under a pattern set has, at the configured
\* precision, a rendering that some pattern of the set matches.
C15_ConfiguredPrecision ==
    /\ Render(Pi, 2) = Str314
    /\ ~filter(Pi, 2, << <<"1", "4">> >>, "suffix", FALSE)
    /\ filter(Pi, 2, << <<"1", "5", "9">> >>, "suffix", FALSE)
    /\ (DrawsPi(args, 2) /\ args.suffix = << <<"1", "4">> >> /\ pc = "loop" /\ rand = <<Pi>>) =>
            (generated # <<>> /\ generated[Len(generated)] = Pi)
    /\ (DrawsPi(args, 2) /\ args.suffix = << <<"1", "5", "9">> >>) => generated = <<>>
    /\ (DrawsPi(args, 5) /\ args.suffix = << <<"1", "5", "9">> >> /\ pc = "loop" /\ rand = <<Pi>>) =>
            (generated # <<>> /\ generated[Len(generated)] = Pi)
    /\ \A k \in 1..Len(generated) :
          \E str \in {Render(generated[k], args.precision)} :
              /\ args.prefix = <<>> \/ SomeMatch(str, args.prefix, "prefix")
              /\ args.suffix = <<>> \/ SomeMatch(str, args.suffix, "suffix")
              /\ args.contains = <<>> \/ SomeMatch(str, args.contains, "contains")

\* a value was accepted under a suffix set of which no pattern ends its
\* rendering at the configured precision, and one ends the first SSOLen
\* characters of that rendering
C15_Witness ==
    /\ args.suffix # <<>>
    /\ \E k \in 1..Len(generated) :
          \E str \in {Render(generated[k], args.precision)} :
              /\ Len(str) > SSOLen
              /\ ~SomeMatch(str, args.suffix, "suffix")
              /\ SomeMatch(SubSeq(str, 1, SSOLen), args.suffix, "suffix")

\* the string is made of digits, with at most one point among them
WellFormed(s) ==
    \/ \A j \in 1..Len(s) : s[j] \in Digit
    \/ \E k \in 1..Len(s) : s[k] = "." /\ \A j \in 1..Len(s) : j # k => s[j] \in Digit

\* the strings of the three pattern sets
Patterns(a) == SeqSet(a.prefix) \cup SeqSet(a.suffix) \cup SeqSet(a.contains)

\* C16, as claimed: every command line with a pattern that is not made of
\* digits and at most one point ends with the pattern error, and no command
\* line without such a pattern does; a run that ran out of memory aside.
C16_EveryConfiguration ==
    (pc # "parse" /\ ~argv.help /\ result # <<known_err>>) =>
        ((\E s \in Patterns(argv) : ~WellFormed(s)) <=> result = <<vect_nan>>)

\* C16, amended: among the command lines that pass the other checks, those
\* with a pattern that is not made of digits and at most one point end with
\* the pattern error, and no other command line ends with it; a run that ran
\* out of memory aside.
C16_PatternCheck ==
    (pc # "parse" /\ ~argv.help /\ result # <<known_err>>) =>
        /\ Violations(argv) \subseteq {"nan"} =>
              ((\E s \in Patterns(argv) : ~WellFormed(s)) <=> result = <<vect_nan>>)
        /\ result = <<vect_nan>> => \E s \in Patterns(argv) : ~WellFormed(s)

\* a command line whose patterns hold digits and points only was rejected
\* for a pattern with two points
C16_Witness ==
    /\ pc = "exit"
    /\ result = <<vect_nan>>
    /\ \A s \in Patterns(argv) : \A j \in 1..Len(s) : s[j] \in Digit \cup {"."}

RECURSIVE IntSum(_, _)
IntSum(gen, k) == IF k = 0 THEN 0 ELSE IntSum(gen, k - 1) + ToInt(gen[k])

RECURSIVE IntSquares(_, _)
IntSquares(gen, k) == IF k = 0 THEN 0 ELSE IntSquares(gen, k - 1) + ToInt(gen[k]) * ToInt(gen[k])

\* N * N times the population variance of whole numbers: the mean of the
\* squares less the square of the mean is (N * S2 - S * S) / (N * N)
ScaledVariance(gen) ==
    Len(gen) * IntSquares(gen, Len(gen)) - IntSum(gen, Len(gen)) * IntSum(gen, Len(gen))

AllWhole(gen) == \A k \in 1..Len(gen) : IsWhole(gen[k])

\* v is the population variance of the whole numbers of gen, to the last
\* bits of a long double
IsPopulationVariance(v, gen) ==
    /\ IsFinite(v)
    /\ Near(FMul(v, FromInt(Len(gen) * Len(gen))), FromInt(ScaledVariance(gen)))

OneToThree == <<FromInt(1), FromInt(2), FromInt(3)>>

\* C17: the variance written is the population variance of the accepted
\* values, the sum of the squared deviations from the mean divided by their
\* number N, and the standard deviation written is its root; the accepted
\* values 1, 2, 3 give the mean 2 and, as the long double next to it, the
\* variance 2/3.
C17_PopulationDivisor ==
    (generated # <<>> /\ AllWhole(generated)) =>
        /\ \A v \in StatLines("variance") : IsPopulationVariance(v, generated)
        /\ \A v \in StatLines("standard deviation") :
               IsFinite(v) /\ IsPopulationVariance(FMul(v, v), generated)
        /\ SameElements(generated, OneToThree) =>
               /\ \A v \in StatLines("avg") : v = FromInt(2)
               /\ \A v \in StatLines("variance") : v = FDivSize(FromInt(2), 3)

\* the mean 2 and the variance 2/3 of 1, 2, 3 in some order were written
C17_Witness ==
    /\ SameElements(generated, OneToThree)
    /\ StatLines("avg") = {FromInt(2)}
    /\ StatLines("variance") = {FDivSize(FromInt(2), 3)}
    /\ StatLines("standard deviation") # {}

\* the laws of the four modes, for every value random() returns in the model
RoundingLaws ==
    \A v \in Draws :
        /\ ceil(ceil(v)) = ceil(v) /\ IsWhole(ceil(v))
        /\ FLessEq(v, ceil(v)) /\ FLess(FSub(ceil(v), One), v)
        /\ floor(floor(v)) = floor(v) /\ IsWhole(floor(v))
        /\ FLessEq(floor(v), v) /\ FLess(v, FAdd(floor(v), One))
        /\ trunc(trunc(v)) = trunc(v) /\ IsWhole(trunc(v))
        /\ FLessEq(Magnitude(trunc(v)), Magnitude(v))
        /\ FLess(Magnitude(v), FAdd(Magnitude(trunc(v)), One))
        /\ trunc(v).neg = v.neg
        /\ round(round(v)) = round(v) /\ IsWhole(round(v))
        /\ FLessEq(FSub(round(v), Half), v) /\ FLessEq(v, FAdd(round(v), Half))
        /\ (FEq(FSub(round(v), Half), v) \/ FEq(FAdd(round(v), Half), v))
              => FLess(Magnitude(v), Magnitude(round(v)))

\* C18: each rounding mode gives a whole number next to its argument in the
\* mode's direction (round: the nearest, the one away from zero at a tie)
\* and leaves a value it gave unchanged; the value kept in a pass of the
\* loop is left unchanged by the active mode; with no mode active the value
\* drawn is kept as it is.
C18_Idempotent ==
    /\ RoundingLaws
    /\ \A v \in random(args) :
          /\ Rounded(args, Rounded(args, v)) = Rounded(args, v)
          /\ ~AnyRounding(args) => Rounded(args, v) = v
    /\ (pc = "loop" /\ rand # <<>>) =>
          /\ Rounded(args, rand[1]) = rand[1]
          /\ AnyRounding(args) => IsWhole(rand[1])
          /\ ~AnyRounding(args) => rand[1] \in random(args)

\* the tie -1.5 was drawn in round mode and kept as -2
C18_Witness ==
    /\ pc = "loop"
    /\ args.round /\ ~args.ceil /\ ~args.floor
    /\ FSub(Zero, FAdd(One, Half)) \in random(args)
    /\ rand = <<FromInt(-2)>>

\* the run draws between 0 and 0.5 and rounds up
CeilOfHalf(a) == a.lbound = Zero /\ a.ubound = Half /\ a.ceil

\* C19, as claimed: with the bounds 0 and 0.5 and ceil mode every accepted
\* value is 1.
C19_AllOne ==
    CeilOfHalf(args) => \A k \in 1..Len(generated) : generated[k] = One

\* C19, amended: with the bounds 0 and 0.5 and ceil mode every draw above 0
\* is kept as 1 and the draw 0, the lower bound, as 0; every accepted value
\* is 1 or 0.
C19_OneOrZero ==
    CeilOfHalf(args) =>
        /\ \A d \in random(args) : Rounded(args, d) = IF FLess(Zero, d) THEN One ELSE Zero
        /\ \A k \in 1..Len(generated) : generated[k] \in {Zero, One}
        /\ (pc = "loop" /\ rand # <<>>) => rand[1] \in {Zero, One}

\* both the draw 0 and a draw above 0 were accepted, as 0 and as 1
C19_Witness ==
    /\ CeilOfHalf(args)
    /\ Zero \in SeqSet(generated)
    /\ One \in SeqSet(generated)

\* no run of the loop can accept `number` values
Unsatisfiable(a) == ~Satisfiable(a)

C21_AppendOnly ==
    [][ pc = "loop" =>
            /\ Len(generated') \in {Len(generated), Len(generated) + 1}
            /\ SubSeq(generated', 1, Len(generated)) = generated ]_vars

\* two different values were accepted one after the other and a draw
\* rejected, the loop still running
C21_Witness ==
    /\ pc = "loop"
    /\ Len(generated) >= 2
    /\ generated[1] # generated[2]
    /\ draws > Len(generated)

\* C22: the run and the run of the same command line with quiet the other
\* way round, given the same draws, go through the loop together: while the
\* run is in the loop both have the same accepted sequence and one draws
\* again exactly if the other does, so that both make the same number of
\* draws; and when the run has left the loop the other has left it too, with
\* as many values accepted.  Two runs of which one ran out of memory, or
\* in which a stream of filter failed to allocate its buffer, are not
\* compared.
C22_QuietOnlyOutput ==
    twin.pc # "failed" /\ ~badbit =>
        /\ pc = "loop" =>
              /\ twin.generated = generated
              /\ (twin.pc = "loop") = (i <= args.number)
        /\ LoopDone =>
              /\ twin.pc = "done"
              /\ Len(twin.generated) = Len(generated)

\* every value written under the label is the statistic f of the sequence
\* gen, bit for bit
SameLines(label, f(_), gen) == \A v \in StatLines(label) : v = f(gen)

\* C23 as stated: after the loop only the median changes the accepted
\* sequence, it leaves every value in it, as often as before, min and max
\* are computed before it, and every mean, variance, standard deviation and
\* coefficient of variation written is the one that the sequence in the
\* order of acceptance gives.
C23_InsertionOrder ==
    /\ [][ (pc # "loop" /\ generated' # generated)
              => (pc = "median" /\ SameElements(generated', generated)) ]_vars
    /\ []( LoopDone =>
              /\ SameElements(generated, accepted)
              /\ pc = "minmax" => (generated = accepted /\ stats = <<>>)
              /\ generated # <<>> =>
                    /\ SameLines("min", MinElement, accepted)
                    /\ SameLines("max", MaxElement, accepted)
                    /\ SameLines("avg", Average, accepted)
                    /\ SameLines("variance", Variance, accepted)
                    /\ SameLines("standard deviation", StdDev, accepted)
                    /\ SameLines("coefficient of variation", CoefVar, accepted) )

\* C23: after the loop only the median changes the accepted sequence, and
\* it leaves every value in it, as often as before, and the length.  At
\* every state after the loop the sequence holds the values the loop left;
\* it is still in the order of acceptance when min and max are computed,
\* and as long as no median was written; every min and max written is the
\* one of the sequence in the order of acceptance; and every mean,
\* variance, standard deviation and coefficient of variation written is the
\* one of the sequence as the median left it, which is the sequence in the
\* order of acceptance when no median was written.
C23_MedianFrame ==
    /\ [][ (pc # "loop" /\ generated' # generated)
              => /\ pc = "median"
                 /\ SameElements(generated', generated)
                 /\ Len(generated') = Len(generated) ]_vars
    /\ []( LoopDone =>
              /\ SameElements(generated, accepted)
              /\ Len(generated) = Len(accepted)
              /\ pc = "minmax" => (generated = accepted /\ stats = <<>>)
              /\ StatLines("median") = {} => generated = accepted
              /\ generated # <<>> =>
                    /\ SameLines("min", MinElement, accepted)
                    /\ SameLines("max", MaxElement, accepted)
                    /\ SameLines("avg", Average, generated)
                    /\ SameLines("variance", Variance, generated)
                    /\ SameLines("standard deviation", StdDev, generated)
                    /\ SameLines("coefficient of variation", CoefVar, generated) )

\* the median has moved values of the accepted sequence and the variance
\* written after it is the one of the sequence as the median left it and
\* not, bit for bit, the one of the order of acceptance
C23_Witness ==
    /\ LoopDone
    /\ generated # accepted
    /\ StatLines("median") # {}
    /\ StatLines("variance") = {Variance(generated)}
    /\ StatLines("variance") # {Variance(accepted)}

\* the pattern sets of a command line, each with the test it is used in
PatternSets(a) ==
    {<<a.prefix, "prefix">>, <<a.suffix, "suffix">>, <<a.contains, "contains">>}

\* some pattern set is given, every pattern set given holds the empty string
\* and no other filter is set
EmptyStringOnly(a) ==
    /\ Patterns(a) # {}
    /\ \A ps \in PatternSets(a) : ps[1] = <<>> \/ <<>> \in SeqSet(ps[1])
    /\ a.excluded = <<>> /\ a.included = <<>> /\ ~a.norepeat

\* C24: the empty string and the string "." are not refused as patterns: a
\* command line whose patterns are all one of the two does not end with the
\* pattern error.  The empty string is a prefix, a suffix and a part of the
\* rendered text of every value drawn, so the test of a pattern set that
\* holds the empty string lets every value through, and a run whose pattern
\* sets all hold it and that has no other filter accepts every draw, unless
\* an allocation fails.
C24_EmptyPattern ==
    /\ ~NotNumeric(<<>>)
    /\ ~NotNumeric(<<".">>)
    /\ (pc # "parse" /\ Patterns(argv) \subseteq {<<>>, <<".">>}) => result # <<vect_nan>>
    /\ rand # <<>> =>
          \A ps \in PatternSets(args) :
              <<>> \in SeqSet(ps[1]) =>
                  /\ \A failed \in BOOLEAN :
                        ~filter(rand[1], args.precision, ps[1], ps[2], failed)
                  /\ starts_with(Render(rand[1], args.precision), <<>>)
                  /\ ends_with(Render(rand[1], args.precision), <<>>)
                  /\ contains(Render(rand[1], args.precision), <<>>)
    /\ (EmptyStringOnly(args) /\ ~args.numbers_force /\ result # <<known_err>>)
          => Len(generated) = draws

\* a value that holds no 9 was accepted by a contains set of "" and "9"
C24_Witness ==
    /\ pc = "loop"
    /\ i > args.number
    /\ <<>> \in SeqSet(args.contains)
    /\ <<"9">> \in SeqSet(args.contains)
    /\ rand # <<>>
    /\ ~contains(Render(rand[1], args.precision), <<"9">>)
    /\ draws = args.number
    /\ Len(generated) = draws
    /\ generated[Len(generated)] = rand[1]

====
